---- MODULE Spec2Model ----
(***************************************************************************)
(* Model of streamlit_app.py: the cached load of data_clean.csv, the       *)
(* sidebar filter widgets, the filter pass over the data frame, the three  *)
(* KPI scalars and the four grouped summaries.  One action is one run of   *)
(* the script from top to bottom, as Streamlit runs it at session start    *)
(* and after every widget change.                                          *)
(*                                                                         *)
(* A data frame is a sequence of rows; a row is a record of its columns    *)
(* plus idx, the pandas index label the row keeps through every boolean    *)
(* selection.  Amounts are integers (whole dollars, margins in percent     *)
(* points); a mean is the exact fraction num/den, or NaN.                  *)
(***************************************************************************)
EXTENDS Integers, Sequences, FiniteSets, TLC

\* ---------------------------------------------------------------- bounds
MaxRecords == 2     \* rows of data_clean.csv
MaxDay == 1         \* the date picker offers the days 0..MaxDay
MaxReads == 2       \* failed reads of the file that are followed
TicksPerDay == 2    \* timestamp resolution: instants per calendar day
DaysPerMonth == 2   \* calendar days per month

\* ------------------------------------------------------- the source file
\* The lines data_clean.csv may hold.  InvoiceDate is the date text of the
\* line, <<day, time of day>>.
CsvLines ==
  { [State |-> "CA", Retailer |-> "Amazon",  SalesMethod |-> "Online",
     Product |-> "Apparel",  InvoiceDate |-> <<0, 0>>,
     TotalSales |-> 100, OperatingProfit |-> 40,  OperatingMargin |-> 40],
    [State |-> "CA", Retailer |-> "Walmart", SalesMethod |-> "Outlet",
     Product |-> "Footwear", InvoiceDate |-> <<1, 1>>,
     TotalSales |-> 50,  OperatingProfit |-> -10, OperatingMargin |-> -20],
    [State |-> "NY", Retailer |-> "Amazon",  SalesMethod |-> "Online",
     Product |-> "Footwear", InvoiceDate |-> <<2, 0>>,
     TotalSales |-> 200, OperatingProfit |-> 60,  OperatingMargin |-> 30] }

CsvFiles == UNION { [1..n -> CsvLines] : n \in 1..MaxRecords }

Days == 0..MaxDay

\* ------------------------------------------------------------ primitives
\* Python's order on the strings of the columns (code point order).
StringOrder ==
  <<"Amazon", "Apparel", "CA", "Footwear", "NY", "Online", "Outlet",
    "Walmart">>

StrRank(s) == CHOOSE i \in DOMAIN StringOrder : StringOrder[i] = s

StrLess(a, b) == StrRank(a) < StrRank(b)

\* pd.to_datetime of a date text: the instant, counted in ticks.
ParseTimestamp(txt) == txt[1] * TicksPerDay + txt[2]

\* pd.to_datetime of a datetime.date: midnight of that day.
ToDatetime(day) == day * TicksPerDay

\* What st.date_input keeps of a Timestamp default: its calendar date.
DateOf(ts) == ts \div TicksPerDay

\* .dt.to_period("M").dt.to_timestamp(): midnight of the first day of the
\* calendar month of ts.
MonthStart(ts) == ((ts \div TicksPerDay) \div DaysPerMonth) * DaysPerMonth * TicksPerDay

\* The rows of a frame, as a set.
Rows(f) == { f[i] : i \in DOMAIN f }

RECURSIVE BoolIndex(_, _)
\* frame[mask], mask a boolean series over the positions of the frame: the
\* rows whose mask is true, in frame order, labels kept.
BoolIndex(f, mask) ==
  IF f = <<>> THEN <<>>
  ELSE LET n == Len(f)
           front == BoolIndex(SubSeq(f, 1, n - 1), SubSeq(mask, 1, n - 1))
       IN IF mask[n] THEN Append(front, f[n]) ELSE front

\* sorted(list of str): ascending sequence of the members of S.
SortedSeq(S) ==
  [i \in 1..Cardinality(S) |->
     CHOOSE k \in S : Cardinality({ j \in S : StrLess(j, k) }) = i - 1]

\* sorted(df[col].unique().tolist())
SortedUnique(f, col) == SortedSeq({ r[col] : r \in Rows(f) })

RECURSIVE SeriesSum(_, _)
\* Series.sum(): 0 for the empty series.
SeriesSum(f, col) ==
  IF f = <<>> THEN 0 ELSE f[1][col] + SeriesSum(Tail(f), col)

NaN == [nan |-> TRUE, num |-> 0, den |-> 1]

\* Variant of SeriesMean: 0 for the empty series.
SeriesMeanZeroOnEmpty(f, col) ==
  [nan |-> FALSE, num |-> SeriesSum(f, col),
   den |-> IF Len(f) = 0 THEN 1 ELSE Len(f)]

\* Series.mean(): sum / count, NaN for the empty series.
SeriesMean(f, col) ==
  IF Len(f) = 0 THEN NaN
  ELSE [nan |-> FALSE, num |-> SeriesSum(f, col), den |-> Len(f)]

\* mean * 100; NaN * 100 is NaN.
Times100(m) == IF m.nan THEN NaN ELSE [m EXCEPT !.num = m.num * 100]

RECURSIVE SeqMin(_)
SeqMin(s) ==
  IF Len(s) = 1 THEN s[1]
  ELSE LET m == SeqMin(Tail(s)) IN IF s[1] < m THEN s[1] ELSE m

RECURSIVE SeqMax(_)
SeqMax(s) ==
  IF Len(s) = 1 THEN s[1]
  ELSE LET m == SeqMax(Tail(s)) IN IF s[1] > m THEN s[1] ELSE m

\* ---------------------------------------------------------------- load
\* The body of load_data: read_csv gives the rows a RangeIndex, the date
\* text is parsed, Month is derived.
ReadAndParse(csv) ==
  [i \in DOMAIN csv |->
     LET ts == ParseTimestamp(csv[i].InvoiceDate) IN
     [idx |-> i - 1,
      State |-> csv[i].State, Retailer |-> csv[i].Retailer,
      SalesMethod |-> csv[i].SalesMethod, Product |-> csv[i].Product,
      InvoiceDate |-> ts,
      TotalSales |-> csv[i].TotalSales,
      OperatingProfit |-> csv[i].OperatingProfit,
      OperatingMargin |-> csv[i].OperatingMargin,
      Month |-> MonthStart(ts)]]

\* ----------------------------------------------------------------- state
VARIABLES
  file,       \* the lines of data_clean.csv
  cached,     \* st.cache_data holds a result of load_data
  cache,      \* that result
  reads,      \* how many times read_csv has read the file
  ui,         \* the session's widget state
  status,     \* how the last run of the script ended
  df, states, retailers, methods, min_date, max_date,
  selected_state, selected_retailers, selected_methods, date_range,
  filtered, total_sales, total_profit, avg_margin,
  sales_method, monthly_sales, margin, product_sales

globals ==
  <<status, df, states, retailers, methods, min_date, max_date,
    selected_state, selected_retailers, selected_methods, date_range,
    filtered, total_sales, total_profit, avg_margin,
    sales_method, monthly_sales, margin, product_sales>>

vars == <<file, cached, cache, reads, ui, globals>>

\* The namespace of a run before its first statement.
Fresh ==
  [status |-> "running", df |-> <<>>, states |-> <<>>, retailers |-> <<>>,
   methods |-> <<>>, min_date |-> 0, max_date |-> 0,
   selected_state |-> "", selected_retailers |-> {},
   selected_methods |-> {}, date_range |-> <<>>,
   filtered |-> <<>>, total_sales |-> 0, total_profit |-> 0,
   avg_margin |-> NaN, sales_method |-> <<>>, monthly_sales |-> <<>>,
   margin |-> <<>>, product_sales |-> <<>>]

\* Widget state of a session whose widgets have not been drawn yet.
NoUi == [drawn |-> FALSE, state |-> "", retailers |-> {}, methods |-> {},
         dates |-> <<>>]

\* ------------------------------------------------------------ load_data
\* Variant of LoadData: no cache, the body runs on every call.
LoadDataUncached == [hit |-> FALSE, value |-> ReadAndParse(file)]

\* @st.cache_data load_data(): the stored result on a hit, else the body.
LoadData ==
  IF cached THEN [hit |-> TRUE, value |-> cache]
  ELSE [hit |-> FALSE, value |-> ReadAndParse(file)]

\* --------------------------------------------------------------- sidebar
\* st.sidebar.selectbox("STATE", states): the stored choice, else option 0.
Selectbox(w, options) == IF w.drawn THEN w.state ELSE options[1]

\* st.sidebar.multiselect(label, options, default=options)
Multiselect(w, stored, options) ==
  IF w.drawn THEN stored ELSE { options[i] : i \in DOMAIN options }

\* st.sidebar.date_input("Date Range", [min_date, max_date])
DateInput(w, lo, hi) ==
  IF w.drawn THEN w.dates ELSE <<DateOf(lo), DateOf(hi)>>

\* Lines 28-49: df = load_data() and the sidebar, for the widget state w.
Sidebar(env, loaded, w) ==
  LET d == loaded
      st == <<"All">> \o SortedUnique(d, "State")
      rt == SortedUnique(d, "Retailer")
      mt == SortedUnique(d, "SalesMethod")
      dates == [i \in DOMAIN d |-> d[i].InvoiceDate]
      lo == SeqMin(dates)
      hi == SeqMax(dates)
  IN [env EXCEPT !.df = d, !.states = st, !.retailers = rt, !.methods = mt,
                 !.min_date = lo, !.max_date = hi,
                 !.selected_state = Selectbox(w, st),
                 !.selected_retailers = Multiselect(w, w.retailers, rt),
                 !.selected_methods = Multiselect(w, w.methods, mt),
                 !.date_range = DateInput(w, lo, hi)]

\* An assignment binds the value of its right-hand side, computed once.
Value(x) == CHOOSE v \in {x} : TRUE

\* ---------------------------------------------------------- apply filters
\* Variant of CopyFrame: the pass narrows the subset of the run before.
CopyFrameKeepPrevious(env) ==
  [env EXCEPT !.filtered = IF status = "ok" THEN filtered ELSE env.df]

\* filtered = df.copy()
CopyFrame(env) == [env EXCEPT !.filtered = env.df]

\* if selected_state != "All": filtered = filtered[State == selected_state]
StateFilter(env) ==
  IF env.selected_state # "All"
  THEN [env EXCEPT !.filtered =
          BoolIndex(env.filtered,
                    [i \in DOMAIN env.filtered |->
                       env.filtered[i].State = env.selected_state])]
  ELSE env

\* filtered = filtered[filtered["Retailer"].isin(selected_retailers)]
RetailerFilter(env) ==
  [env EXCEPT !.filtered =
     BoolIndex(env.filtered,
               [i \in DOMAIN env.filtered |->
                  env.filtered[i].Retailer \in env.selected_retailers])]

\* Variant of MethodFilter: the rows are dropped from df itself.
MethodFilterInPlace(env) ==
  LET kept == BoolIndex(env.filtered,
                        [i \in DOMAIN env.filtered |->
                           env.filtered[i].SalesMethod \in env.selected_methods])
  IN [env EXCEPT !.filtered = kept, !.df = kept]

\* filtered = filtered[filtered["Sales Method"].isin(selected_methods)]
MethodFilter(env) ==
  [env EXCEPT !.filtered =
     BoolIndex(env.filtered,
               [i \in DOMAIN env.filtered |->
                  env.filtered[i].SalesMethod \in env.selected_methods])]

\* Variant of DateMask: the end of the range is exclusive.
DateMaskEndExclusive(r, first, second) ==
  (r.InvoiceDate >= ToDatetime(first)) /\ (r.InvoiceDate < ToDatetime(second))

\* Variant of DateMask: the two ends are put in order before comparing.
DateMaskOrdered(r, first, second) ==
  LET a == IF first <= second THEN first ELSE second
      b == IF first <= second THEN second ELSE first
  IN (r.InvoiceDate >= ToDatetime(a)) /\ (r.InvoiceDate <= ToDatetime(b))

\* The mask of lines 58-59, for a row and the two ends of the range.
DateMask(r, first, second) ==
  (r.InvoiceDate >= ToDatetime(first)) /\ (r.InvoiceDate <= ToDatetime(second))

\* Lines 57-60.  date_range[1] raises IndexError on a one-date range.
DateFilter(env) ==
  IF Len(env.date_range) < 2
  THEN [env EXCEPT !.status = "IndexError"]
  ELSE [env EXCEPT !.filtered =
          BoolIndex(env.filtered,
                    [i \in DOMAIN env.filtered |->
                       DateMask(env.filtered[i], env.date_range[1],
                                env.date_range[2])])]

\* Lines 52-60.
ApplyFilters(env) ==
  DateFilter(Value(MethodFilter(Value(RetailerFilter(Value(
    StateFilter(Value(CopyFrame(Value(env))))))))))

\* ------------------------------------------------------------------ KPIs
\* Lines 67-69.
KpiMetrics(env) ==
  [env EXCEPT !.total_sales = SeriesSum(env.filtered, "TotalSales"),
              !.total_profit = SeriesSum(env.filtered, "OperatingProfit"),
              !.avg_margin = Times100(SeriesMean(env.filtered, "OperatingMargin"))]

\* --------------------------------------------------------------- visuals
\* The key columns of the three groupings.
ByMethod == <<"SalesMethod">>
ByMonthMethod == <<"Month", "SalesMethod">>
ByProductMethod == <<"Product", "SalesMethod">>

\* The group key of a row: its values in the key columns.
RowKey(r, by) == [i \in DOMAIN by |-> r[by[i]]]

\* Order of two values of a column: Month is a timestamp, the others str.
ColLess(col, a, b) == IF col = "Month" THEN a < b ELSE StrLess(a, b)

\* Order of the group keys: column by column, left to right.
KeyLess(by, a, b) ==
  \E i \in DOMAIN by :
    /\ ColLess(by[i], a[i], b[i])
    /\ \A j \in DOMAIN by : j < i => a[j] = b[j]

RECURSIVE Dedup(_)
\* The members of a sequence in order of first appearance.
Dedup(s) ==
  IF s = <<>> THEN <<>>
  ELSE LET t == Dedup(SubSeq(s, 1, Len(s) - 1)) IN
       IF \E i \in DOMAIN t : t[i] = s[Len(s)] THEN t ELSE Append(t, s[Len(s)])

\* Variant of GroupKeys: keys in order of first appearance (sort=False).
GroupKeysUnsorted(f, by) == Dedup([i \in DOMAIN f |-> RowKey(f[i], by)])

\* Variant of GroupKeys: every combination of the values that occur
\* (observed=False on categorical keys).
GroupKeysProduct(f, by) ==
  LET ks == { RowKey(r, by) : r \in Rows(f) }
      all == IF Len(by) = 2
             THEN { <<a[1], b[2]>> : a \in ks, b \in ks } ELSE ks
  IN [i \in 1..Cardinality(all) |->
        CHOOSE k \in all :
          Cardinality({ j \in all : KeyLess(by, j, k) }) = i - 1]

\* groupby(by): the key combinations that occur in f, sorted (sort=True).
GroupKeys(f, by) ==
  LET ks == { RowKey(r, by) : r \in Rows(f) } IN
  [i \in 1..Cardinality(ks) |->
     CHOOSE k \in ks : Cardinality({ j \in ks : KeyLess(by, j, k) }) = i - 1]

\* Variant of GroupRows: only the first row of the group.
GroupRowsFirst(f, by, k) ==
  SubSeq(BoolIndex(f, [i \in DOMAIN f |-> RowKey(f[i], by) = k]), 1, 1)

\* The rows of one group.
GroupRows(f, by, k) == BoolIndex(f, [i \in DOMAIN f |-> RowKey(f[i], by) = k])

\* groupby(by)[col].sum().reset_index()
GroupSum(f, by, col) ==
  LET ks == GroupKeys(f, by) IN
  [i \in DOMAIN ks |->
     [key |-> ks[i], value |-> SeriesSum(GroupRows(f, by, ks[i]), col)]]

\* groupby(by)[col].mean().reset_index()
GroupMean(f, by, col) ==
  LET ks == GroupKeys(f, by) IN
  [i \in DOMAIN ks |->
     [key |-> ks[i], value |-> SeriesMean(GroupRows(f, by, ks[i]), col)]]

\* Lines 99, 111, 119, 132.
Visuals(env) ==
  [env EXCEPT
     !.sales_method = GroupSum(env.filtered, ByMethod, "TotalSales"),
     !.monthly_sales = GroupSum(env.filtered, ByMonthMethod, "TotalSales"),
     !.margin = GroupMean(env.filtered, ByMethod, "OperatingMargin"),
     !.product_sales = GroupSum(env.filtered, ByProductMethod, "TotalSales")]

\* ------------------------------------------------------------ the script
\* One run of streamlit_app.py with the data frame load_data returned and
\* the widget state w.  An
\* exception ends the run: the names bound so far keep their values and the
\* statements after it do not run.
Script(loaded, w) ==
  LET e1 == Value(ApplyFilters(Sidebar(Fresh, loaded, w))) IN
  IF e1.status = "IndexError" THEN e1
  ELSE [Visuals(Value(KpiMetrics(e1))) EXCEPT !.status = "ok"]

\* --------------------------------------------------------------- actions
Bind(env) ==
  /\ status' = env.status
  /\ df' = env.df
  /\ states' = env.states
  /\ retailers' = env.retailers
  /\ methods' = env.methods
  /\ min_date' = env.min_date
  /\ max_date' = env.max_date
  /\ selected_state' = env.selected_state
  /\ selected_retailers' = env.selected_retailers
  /\ selected_methods' = env.selected_methods
  /\ date_range' = env.date_range
  /\ filtered' = env.filtered
  /\ total_sales' = env.total_sales
  /\ total_profit' = env.total_profit
  /\ avg_margin' = env.avg_margin
  /\ sales_method' = env.sales_method
  /\ monthly_sales' = env.monthly_sales
  /\ margin' = env.margin
  /\ product_sales' = env.product_sales

\* A run of the script in which load_data returns, with widget state w.
Run(w) ==
  \E ld \in {LoadData} : \E env \in {Script(ld.value, w)} :
     /\ ld.hit \/ reads < MaxReads
     /\ reads' = IF ld.hit THEN reads ELSE reads + 1
     /\ cached' = TRUE
     /\ cache' = IF ld.hit THEN cache ELSE ld.value
     /\ ui' = [drawn |-> TRUE, state |-> env.selected_state,
               retailers |-> env.selected_retailers,
               methods |-> env.selected_methods, dates |-> env.date_range]
     /\ Bind(env)
     /\ UNCHANGED file

Init ==
  /\ file \in CsvFiles
  /\ cached = FALSE
  /\ cache = <<>>
  /\ reads = 0
  /\ ui = NoUi
  /\ status = "init"
  /\ df = Fresh.df
  /\ states = Fresh.states
  /\ retailers = Fresh.retailers
  /\ methods = Fresh.methods
  /\ min_date = Fresh.min_date
  /\ max_date = Fresh.max_date
  /\ selected_state = Fresh.selected_state
  /\ selected_retailers = Fresh.selected_retailers
  /\ selected_methods = Fresh.selected_methods
  /\ date_range = Fresh.date_range
  /\ filtered = Fresh.filtered
  /\ total_sales = Fresh.total_sales
  /\ total_profit = Fresh.total_profit
  /\ avg_margin = Fresh.avg_margin
  /\ sales_method = Fresh.sales_method
  /\ monthly_sales = Fresh.monthly_sales
  /\ margin = Fresh.margin
  /\ product_sales = Fresh.product_sales

\* The first run of a session: every widget hands out its default.
FirstRun == ~ui.drawn /\ Run(ui)

\* read_csv raises (file missing or unreadable): the run ends at line 28,
\* nothing is stored in the cache.
LoadFails ==
  /\ ~cached
  /\ reads < MaxReads
  /\ reads' = reads + 1
  /\ Bind([Fresh EXCEPT !.status = "LoadError"])
  /\ UNCHANGED <<file, cached, cache, ui>>

\* A rerun without a widget change.
Rerun == ui.drawn /\ Run(ui)

\* The user picks a region in the STATE selectbox.
SelectState ==
  \E s \in { states[i] : i \in DOMAIN states } :
    ui.drawn /\ s # ui.state /\ Run([ui EXCEPT !.state = s])

\* The user changes the Retailer multiselect.
SelectRetailers ==
  \E R \in SUBSET { retailers[i] : i \in DOMAIN retailers } :
    ui.drawn /\ R # ui.retailers /\ Run([ui EXCEPT !.retailers = R])

\* The user changes the Sales Method multiselect.
SelectMethods ==
  \E M \in SUBSET { methods[i] : i \in DOMAIN methods } :
    ui.drawn /\ M # ui.methods /\ Run([ui EXCEPT !.methods = M])

\* The values the date picker hands out: one date while a range is being
\* picked, else two dates.
DateInputs == { <<a>> : a \in Days } \cup { <<a, b>> : a \in Days, b \in Days }

\* The user picks in the Date Range input.
PickDates ==
  \E dr \in DateInputs :
    ui.drawn /\ dr # ui.dates /\ Run([ui EXCEPT !.dates = dr])

Next ==
  \/ FirstRun
  \/ LoadFails
  \/ Rerun
  \/ SelectState
  \/ SelectRetailers
  \/ SelectMethods
  \/ PickDates

Spec == Init /\ [][Next]_vars

\* ============================================================ properties
\* The script has drawn the sidebar in its last run.
Ran == status \in {"ok", "IndexError"}

\* The four predicates of the selection, for a row of the dataset; the two
\* dates of the range are compared as the midnights they stand for.
Selected(r) ==
  /\ selected_state = "All" \/ r.State = selected_state
  /\ r.Retailer \in selected_retailers
  /\ r.SalesMethod \in selected_methods
  /\ date_range[1] * TicksPerDay <= r.InvoiceDate
  /\ r.InvoiceDate <= date_range[2] * TicksPerDay

\* The widgets still show their defaults.
AllSelected ==
  /\ selected_state = "All"
  /\ selected_retailers = { retailers[i] : i \in DOMAIN retailers }
  /\ selected_methods = { methods[i] : i \in DOMAIN methods }

RECURSIVE SetSum(_, _)
\* Sum of a column over a set of rows.
SetSum(S, col) ==
  IF S = {} THEN 0
  ELSE LET r == CHOOSE x \in S : TRUE IN r[col] + SetSum(S \ {r}, col)

\* The keys of a summary are pairwise different.
DistinctKeys(t) == \A i, j \in DOMAIN t : t[i].key = t[j].key => i = j

KeySet(t) == { t[i].key : i \in DOMAIN t }

\* C1: after a pass that completed, the filtered subset holds a row of the
\* dataset iff the row satisfies all four predicates (both ends of the date
\* interval inclusive); it holds no other row, no row twice, and it is empty
\* when the retailer set or the channel set is empty.
C1_FilterIffAllPredicates ==
  status = "ok" =>
    /\ \A r \in Rows(df) : r \in Rows(filtered) <=> Selected(r)
    /\ Rows(filtered) \subseteq Rows(df)
    /\ Cardinality(Rows(filtered)) = Len(filtered)
    /\ (selected_retailers = {} \/ selected_methods = {}) => filtered = <<>>

\* A pass kept a row dated exactly at the end of the interval and dropped
\* another row, under a region choice other than "All".
C1_Witness ==
  /\ status = "ok"
  /\ selected_state # "All"
  /\ \E r \in Rows(filtered) : r.InvoiceDate = date_range[2] * TicksPerDay
  /\ Rows(df) \ Rows(filtered) # {}

\* C2: total_sales equals the sum of the per-channel totals of the
\* sales-by-channel summary, and every row of the subset lies in exactly
\* one channel group.
C2_SumDecomposition ==
  status = "ok" =>
    /\ total_sales = SetSum(Rows(sales_method), "value")
    /\ \A r \in Rows(filtered) :
         Cardinality({ i \in DOMAIN sales_method :
                         sales_method[i].key = <<r.SalesMethod>> }) = 1

\* A subset of two rows in two channel groups was summed.
C2_Witness ==
  /\ status = "ok"
  /\ Len(filtered) = 2
  /\ Len(sales_method) = 2
  /\ total_sales > 0

\* C3: on an empty subset the pass completes with total_sales = 0,
\* total_profit = 0, avg_margin = NaN (not 0) and four empty summaries.
C3_EmptySubset ==
  (Ran /\ Len(date_range) = 2 /\ Len(filtered) = 0) =>
    /\ status = "ok"
    /\ total_sales = 0
    /\ total_profit = 0
    /\ avg_margin.nan
    /\ avg_margin # [nan |-> FALSE, num |-> 0, den |-> 1]
    /\ sales_method = <<>>
    /\ monthly_sales = <<>>
    /\ margin = <<>>
    /\ product_sales = <<>>

\* A pass over a non-empty dataset ended with an empty subset because no
\* retailer is selected.
C3_Witness ==
  /\ status = "ok"
  /\ filtered = <<>>
  /\ selected_retailers = {}
  /\ df # <<>>

\* C4: a range whose start is after its end gives an empty subset, and the
\* pass completes, whatever the other three filters are.
C4_InvertedInterval ==
  (Len(date_range) = 2 /\ date_range[1] > date_range[2]) =>
    status = "ok" /\ filtered = <<>>

\* An inverted range was applied with every region, retailer and channel
\* selected, on a dataset that has rows dated between its two ends.
C4_Witness ==
  /\ status = "ok"
  /\ Len(date_range) = 2
  /\ date_range[1] > date_range[2]
  /\ AllSelected
  /\ \E r \in Rows(df) :
       /\ r.InvoiceDate >= date_range[2] * TicksPerDay
       /\ r.InvoiceDate <= date_range[1] * TicksPerDay

\* C5: each of the four summaries has exactly one row per key combination
\* that occurs in the filtered subset and none for any other combination; a
\* channel outside the selected channel set is in none of them.
C5_OneRowPerPresentKey ==
  status = "ok" =>
    /\ DistinctKeys(sales_method) /\ DistinctKeys(monthly_sales)
    /\ DistinctKeys(margin) /\ DistinctKeys(product_sales)
    /\ KeySet(sales_method) = { <<r.SalesMethod>> : r \in Rows(filtered) }
    /\ KeySet(margin) = { <<r.SalesMethod>> : r \in Rows(filtered) }
    /\ KeySet(monthly_sales) =
         { <<r.Month, r.SalesMethod>> : r \in Rows(filtered) }
    /\ KeySet(product_sales) =
         { <<r.Product, r.SalesMethod>> : r \in Rows(filtered) }
    /\ \A k \in KeySet(sales_method) \cup KeySet(margin) :
         k[1] \in selected_methods
    /\ \A k \in KeySet(monthly_sales) : k[2] \in selected_methods
    /\ \A k \in KeySet(product_sales) : k[2] \in selected_methods

\* Summaries were built for a subset that has two months and two products
\* while one channel of the dataset is deselected.
C5_Witness ==
  /\ status = "ok"
  /\ filtered # <<>>
  /\ \E i \in DOMAIN methods : methods[i] \notin selected_methods
  /\ \E r \in Rows(df) \ Rows(filtered) : r.SalesMethod \notin selected_methods

\* The frames that hold the rows of f in some order.
Reorderings(f) ==
  { [i \in DOMAIN f |-> f[p[i]]] : p \in Permutations(DOMAIN f) }

SinglePassSubset == SelectSeq(cache, Selected)

\* The summary a single pass gives for a grouping: one row per key of the
\* subset with the aggregate of the rows of that key.
SinglePassSums(by, col) ==
  { [key |-> k,
     value |-> SetSum({ r \in Rows(SinglePassSubset) : RowKey(r, by) = k }, col)] :
    k \in { RowKey(r, by) : r \in Rows(SinglePassSubset) } }

SinglePassMeans(by, col) ==
  { [key |-> k,
     value |->
       [nan |-> FALSE,
        num |-> SetSum({ r \in Rows(SinglePassSubset) : RowKey(r, by) = k }, col),
        den |-> Cardinality({ r \in Rows(SinglePassSubset) : RowKey(r, by) = k })]] :
    k \in { RowKey(r, by) : r \in Rows(SinglePassSubset) } }

\* C7: after any sequence of runs, the results of the last completed pass
\* are those of a single pass from the loaded dataset with the current
\* selection: the subset, the three KPIs and the four summaries depend on
\* nothing else.
C7_PureFunctionOfSelection ==
  status = "ok" =>
    /\ selected_state = ui.state
    /\ selected_retailers = ui.retailers
    /\ selected_methods = ui.methods
    /\ date_range = ui.dates
    /\ filtered = SinglePassSubset
    /\ total_sales = SetSum(Rows(SinglePassSubset), "TotalSales")
    /\ total_profit = SetSum(Rows(SinglePassSubset), "OperatingProfit")
    /\ avg_margin =
         IF SinglePassSubset = <<>> THEN NaN
         ELSE [nan |-> FALSE,
               num |-> 100 * SetSum(Rows(SinglePassSubset), "OperatingMargin"),
               den |-> Len(SinglePassSubset)]
    /\ Rows(sales_method) = SinglePassSums(ByMethod, "TotalSales")
    /\ Rows(monthly_sales) = SinglePassSums(ByMonthMethod, "TotalSales")
    /\ Rows(margin) = SinglePassMeans(ByMethod, "OperatingMargin")
    /\ Rows(product_sales) = SinglePassSums(ByProductMethod, "TotalSales")
    /\ Len(sales_method) = Cardinality(Rows(sales_method))
    /\ Len(monthly_sales) = Cardinality(Rows(monthly_sales))
    /\ Len(margin) = Cardinality(Rows(margin))
    /\ Len(product_sales) = Cardinality(Rows(product_sales))

\* After at least one change of the date range, a pass returned the whole
\* dataset.
C7_Witness ==
  /\ status = "ok"
  /\ date_range # <<DateOf(min_date), DateOf(max_date)>>
  /\ Len(df) = 2
  /\ filtered = df

\* C8: a run leaves the dataset as load_data returned it, and from one run
\* to the next the dataset, the option lists and the default date bounds
\* do not change.
C8_DatasetReadOnly ==
  [][(status' \in {"ok", "IndexError"}) =>
       /\ df' = cache'
       /\ Ran => /\ cache' = cache
                 /\ df' = df
                 /\ states' = states
                 /\ retailers' = retailers
                 /\ methods' = methods
                 /\ min_date' = min_date
                 /\ max_date' = max_date]_vars

\* A pass has dropped rows of a two-row dataset under a changed selection.
C8_Witness ==
  /\ status = "ok"
  /\ ~AllSelected
  /\ Len(df) = 2
  /\ Len(filtered) < Len(df)

\* C9: once load_data has returned, the file is not read again and every
\* later call returns the dataset of the first call.
C9_LoadCached ==
  [][cached => /\ reads' = reads
               /\ cache' = cache
               /\ cached'
               /\ (status' \in {"ok", "IndexError"}) => df' = cache]_vars

\* The script ran again after the load (the region was changed), also
\* after a first read that failed.
C9_Witness ==
  /\ cached
  /\ reads = 2
  /\ status = "ok"
  /\ selected_state # "All"

\* C10: whatever the date-range widget hands to the filter step (two dates
\* in either order, or one date), the filter step completes.
C10_DateRangeNeverRaises ==
  Len(date_range) \in {1, 2} => status = "ok"
====
